---- MODULE Spec2Model ----
(***************************************************************************)
(* A model of qubes_menu/desktop_file_manager.py: the cache of             *)
(* ApplicationInfo records kept by DesktopFileManager, the inotify event   *)
(* handlers that feed it, the observer callbacks, and the two pure         *)
(* functions _eligibility_check and get_command_for_vm.                    *)
(*                                                                         *)
(* Strings are sequences of chunks (<<"work", ": ", "Firefox">> is the     *)
(* string "work: Firefox"), so that concatenation is \o, and startswith,   *)
(* endswith and split(' ') are computed as Python computes them.           *)
(***************************************************************************)
EXTENDS Integers, Sequences, FiniteSets, TLC

VARIABLES fs, domains, current_environments, app_entries, _callbacks,
          queue, nextId, lastOp, trace, call

vars == <<fs, domains, current_environments, app_entries, _callbacks,
          queue, nextId, lastOp, trace, call>>

(***************************************************************************)
(* Bounds of the model.                                                    *)
(***************************************************************************)
\* pending inotify events
MaxQueue == 2
\* registered observers
MaxObservers == 3
\* ApplicationInfo objects ever constructed
MaxRecords == 2
\* length of an exec token list handed to get_command_for_vm
MaxTokens == 7
\* length of an OnlyShowIn / NotShowIn / XDG_CURRENT_DESKTOP list
MaxTags == 2

(***************************************************************************)
(* Python values.                                                          *)
(***************************************************************************)
\* None in a field typed Optional[str]
None == <<"<None>">>
\* None in the field vm
NoVM == [name |-> None, icon |-> None]
\* str(None)
StrNone == <<"None">>

\* s.startswith(p)
StartsWith(s, p) == Len(s) >= Len(p) /\ SubSeq(s, 1, Len(p)) = p
\* s.endswith(p)
EndsWith(s, p) == Len(s) >= Len(p) /\ SubSeq(s, Len(s) - Len(p) + 1, Len(s)) = p
\* s.split(' ')
RECURSIVE Split(_)
Split(s) ==
    IF \A i \in 1..Len(s) : s[i] # " "
    THEN <<s>>
    ELSE LET i == CHOOSE k \in 1..Len(s) :
                      s[k] = " " /\ \A j \in 1..(k - 1) : s[j] # " "
         IN  <<SubSeq(s, 1, i - 1)>> \o Split(SubSeq(s, i + 1, Len(s)))
\* set(list)
Range(s) == {s[i] : i \in 1..Len(s)}

\* constants.DISPOSABLE_PREFIX
DISPOSABLE_PREFIX == <<"@disp:">>
\* the suffix of an entry file
DesktopSuffix == <<".desktop">>

(***************************************************************************)
(* The file system under the watched directories, and the parser.          *)
(***************************************************************************)
\* DesktopFileManager.desktop_dirs, in order
desktop_dirs == <<"home", "usr">>

\* the files that may exist, as (directory, file name)
FileA == [dir |-> "home", name |-> <<"a", ".desktop">>]
FileB == [dir |-> "usr", name |-> <<"b", ".desktop">>]
FileN == [dir |-> "usr", name |-> <<"notes", ".txt">>]
Files == {FileA, FileB, FileN}

\* the name of a VM of the registry, and the VM object qapp.domains gives
VMWork == <<"work">>
VMNames == {VMWork}
VM(n) == [name |-> n, icon |-> <<"icon-", n[1]>>]

\* the parsed entries (xdg.DesktopEntry objects) a file may hold
Plain ==
    [Hidden |-> FALSE, OnlyShowIn |-> <<>>, NotShowIn |-> <<>>,
     VmName |-> <<>>, Name |-> <<"Files">>, Icon |-> <<"folder">>,
     NonDispvmExec |-> <<>>, AppName |-> <<>>,
     Exec |-> <<"nautilus", " ", "--new">>, Categories |-> <<"Utility">>]
Qubes ==
    [Hidden |-> FALSE, OnlyShowIn |-> <<"X-QUBES">>, NotShowIn |-> <<>>,
     VmName |-> VMWork, Name |-> <<"work", ": ", "Firefox">>,
     Icon |-> <<"firefox">>, NonDispvmExec |-> <<"1">>,
     AppName |-> <<"firefox">>,
     Exec |-> <<"qvm-run", " ", "work", " ", "firefox">>,
     Categories |-> <<"X-Qubes-VM">>]
HiddenEntry == [Plain EXCEPT !.Hidden = TRUE]
\* what DesktopEntry(path) builds for a path that does not exist
\* (DesktopEntry.new: an entry with no keys but Type)
Blank ==
    [Hidden |-> FALSE, OnlyShowIn |-> <<>>, NotShowIn |-> <<>>,
     VmName |-> <<>>, Name |-> <<>>, Icon |-> <<>>,
     NonDispvmExec |-> <<>>, AppName |-> <<>>,
     Exec |-> <<>>, Categories |-> <<>>]

\* the state of one file: absent, zero bytes, not parseable, or an entry
Missing == [kind |-> "missing"]
Empty == [kind |-> "empty"]
Garbage == [kind |-> "garbage"]
Content(e) == [kind |-> "entry", entry |-> e]
Contents == {Content(e) : e \in {Plain, Qubes, HiddenEntry}}
FileStates == {Missing, Empty, Garbage} \cup Contents

\* path.exists()
exists(st) == st # Missing
\* path.stat().st_size == 0
size_is_zero(st) == st \in {Missing, Empty}

\* xdg.DesktopEntry.DesktopEntry(path): the outcomes of the parser, which
\* is outside the repository.  An unparseable or empty file raises; a path
\* that does not exist either raises or yields a blank entry, according
\* to the parser.
ParseError == [kind |-> "ParseError"]
DesktopEntry(st) ==
    CASE st = Missing -> {ParseError, Content(Blank)}
      [] st \in {Empty, Garbage} -> {ParseError}
      [] OTHER -> {st}

(***************************************************************************)
(* Paths: a str or a pathlib.Path naming a file.                           *)
(***************************************************************************)
StrPath(f) == [kind |-> "str", dir |-> f.dir, name |-> f.name]
PosixPath(f) == [kind |-> "Path", dir |-> f.dir, name |-> f.name]
\* isinstance(path, str)
isinstance_str(path) == path.kind = "str"
\* a faulty variant: the path is used as it was given
Path_Unconverted(path) == path

\* Path(path)
Path(path) == [path EXCEPT !.kind = "Path"]
\* the file a path names
FileOf(path) == [dir |-> path.dir, name |-> path.name]

(***************************************************************************)
(* DesktopFileManager._eligibility_check                                   *)
(***************************************************************************)
\* a faulty variant: NotShowIn is looked at before OnlyShowIn
eligibility_check_NotShowInFirst(entry, envs) ==
    IF entry.Hidden THEN FALSE
    ELSE IF entry.NotShowIn # <<>>
         THEN ~(Range(entry.NotShowIn) \cap Range(envs) # {})
    ELSE IF entry.OnlyShowIn # <<>>
         THEN Range(entry.OnlyShowIn) \cap Range(envs) # {}
    ELSE TRUE

_eligibility_check(entry, envs) ==
    IF entry.Hidden THEN FALSE
    ELSE IF entry.OnlyShowIn # <<>>
         THEN Range(entry.OnlyShowIn) \cap Range(envs) # {}
    ELSE IF entry.NotShowIn # <<>>
         THEN ~(Range(entry.NotShowIn) \cap Range(envs) # {})
    ELSE TRUE

(***************************************************************************)
(* ApplicationInfo                                                         *)
(***************************************************************************)
\* a faulty variant: the list of entries is shared with the object
\* constructed before, so that a new record starts with an entry of that one
ApplicationInfo_SharedEntries(id, file_path) ==
    [id |-> id, file_path |-> file_path, app_icon |-> None,
     vm_icon |-> None, app_name |-> None, vm |-> NoVM, entry_name |-> None,
     exec |-> <<>>, disposable |-> FALSE, categories |-> <<>>,
     entries |-> IF id > 1 THEN <<[obs |-> 1, rec |-> id - 1]>> ELSE <<>>]

\* ApplicationInfo.__init__; id stands for the identity of the object
ApplicationInfo(id, file_path) ==
    [id |-> id, file_path |-> file_path, app_icon |-> None,
     vm_icon |-> None, app_name |-> None, vm |-> NoVM, entry_name |-> None,
     exec |-> <<>>, disposable |-> FALSE, categories |-> <<>>,
     entries |-> <<>>]

\* a call of a collaborator, as recorded in trace
CallObserver(o, info) == [fn |-> "callback", obs |-> o, arg |-> info.id]
\* call c is a call of observer o with the record of identity r
IsObserverCall(c, o, r) == c.fn = "callback" /\ c.obs = o /\ c.arg = r
CallWidget(f, w) == [fn |-> f, obs |-> w.obs, arg |-> w.rec]

\* self.qapp.domains[vm_name], with KeyError caught
LookupVM(doms, vm_name) ==
    IF vm_name # <<>> /\ vm_name \in doms THEN VM(vm_name) ELSE NoVM

\* a faulty variant: exec is assigned only when the record is first filled
LoadedFields_StaleExec(info, entry, doms) ==
    LET vm == LookupVM(doms, entry.VmName)
        raw_name == entry.Name
        app_name == IF vm # NoVM /\ StartsWith(raw_name, vm.name \o <<": ">>)
                    THEN SubSeq(raw_name, Len(vm.name \o <<": ">>) + 1,
                                Len(raw_name))
                    ELSE raw_name
        disposable == entry.NonDispvmExec # <<>>
        entry_name == IF entry.AppName # <<>> THEN entry.AppName
                      ELSE info.file_path.name
    IN  [info EXCEPT
            !.vm = vm,
            !.app_name = app_name,
            !.vm_icon = IF vm # NoVM THEN vm.icon ELSE None,
            !.app_icon = entry.Icon,
            !.disposable = disposable,
            !.entry_name = IF disposable THEN DISPOSABLE_PREFIX \o entry_name
                           ELSE entry_name,
            !.exec = IF @ = <<>> THEN Split(entry.Exec) ELSE @,
            !.categories = entry.Categories]

\* a faulty variant: a VM resolved by an earlier load is kept
LoadedFields_CachedVM(info, entry, doms) ==
    LET vm == IF info.vm # NoVM THEN info.vm
              ELSE LookupVM(doms, entry.VmName)
        raw_name == entry.Name
        app_name == IF vm # NoVM /\ StartsWith(raw_name, vm.name \o <<": ">>)
                    THEN SubSeq(raw_name, Len(vm.name \o <<": ">>) + 1,
                                Len(raw_name))
                    ELSE raw_name
        disposable == entry.NonDispvmExec # <<>>
        entry_name == IF entry.AppName # <<>> THEN entry.AppName
                      ELSE info.file_path.name
    IN  [info EXCEPT
            !.vm = vm,
            !.app_name = app_name,
            !.vm_icon = IF vm # NoVM THEN vm.icon ELSE None,
            !.app_icon = entry.Icon,
            !.disposable = disposable,
            !.entry_name = IF disposable THEN DISPOSABLE_PREFIX \o entry_name
                           ELSE entry_name,
            !.exec = Split(entry.Exec),
            !.categories = entry.Categories]

\* the fields load_data assigns, from the entry and the registry
LoadedFields(info, entry, doms) ==
    LET vm == LookupVM(doms, entry.VmName)
        raw_name == entry.Name
        app_name == IF vm # NoVM /\ StartsWith(raw_name, vm.name \o <<": ">>)
                    THEN SubSeq(raw_name, Len(vm.name \o <<": ">>) + 1,
                                Len(raw_name))
                    ELSE raw_name
        disposable == entry.NonDispvmExec # <<>>
        entry_name == IF entry.AppName # <<>> THEN entry.AppName
                      ELSE info.file_path.name
    IN  [info EXCEPT
            !.vm = vm,
            !.app_name = app_name,
            !.vm_icon = IF vm # NoVM THEN vm.icon ELSE None,
            !.app_icon = entry.Icon,
            !.disposable = disposable,
            !.entry_name = IF disposable THEN DISPOSABLE_PREFIX \o entry_name
                           ELSE entry_name,
            !.exec = Split(entry.Exec),
            !.categories = entry.Categories]

\* the calls of update_contents at the end of load_data; sees is the record
\* as the dependent entry finds it when it is called
UpdateCalls(info) ==
    [i \in 1..Len(info.entries) |->
        [fn |-> "update_contents", obs |-> info.entries[i].obs,
         arg |-> info.entries[i].rec, sees |-> info]]

\* str(vm)
StrOf(vm) == IF vm = NoVM THEN StrNone ELSE vm.name

\* the index of command[5]
CommandVMIndex == 5

\* the outcome of a call: a value returned, with whether a warning was
\* logged, or an exception raised
Returns(v, warned) == [raised |-> FALSE, value |-> v, warned |-> warned]
Raises(exc) == [raised |-> TRUE, exc |-> exc]

\* ApplicationInfo.get_command_for_vm(vm); vm = NoVM is the default, None
get_command_for_vm(info, vm) ==
    LET command == info.exec
    IN  IF vm # NoVM /\ info.vm # vm
        THEN IF CommandVMIndex + 1 > Len(command)
             THEN Raises("IndexError")
             ELSE Returns(
                    [i \in 1..Len(command) |->
                        IF command[i] = StrOf(info.vm) THEN StrOf(vm)
                        ELSE command[i]],
                    command[CommandVMIndex + 1] # StrOf(info.vm))
        ELSE Returns(command, FALSE)

\* ApplicationInfo.is_qubes_specific
is_qubes_specific(info) == "X-Qubes-VM" \in Range(info.categories)

(***************************************************************************)
(* DesktopFileManager: the cache and its operations.  app_entries is the   *)
(* dict, as the sequence of its (key, value) items in insertion order.     *)
(* An operation takes and gives a record m of the fields it may change:    *)
(* app_entries, nextId (the identity of the next ApplicationInfo           *)
(* constructed) and trace (the calls made to observers and to the          *)
(* dependent entries).                                                     *)
(***************************************************************************)
\* the position of key path in the dict, 0 when it is not a key
IndexOf(ae, path) ==
    IF \E i \in 1..Len(ae) : ae[i].key = path
    THEN CHOOSE i \in 1..Len(ae) : ae[i].key = path
    ELSE 0

\* a faulty variant: the items after the deleted one are dropped with it
DelItem_Truncates(ae, i) == SubSeq(ae, 1, i - 1)

\* del self.app_entries[path], for the key at position i
DelItem(ae, i) == SubSeq(ae, 1, i - 1) \o SubSeq(ae, i + 1, Len(ae))

\* what an observer does when called with a record: it may append the
\* widget it creates to the record's entries
Widget(o, info) == [obs |-> o.id, rec |-> info.id]
Observe(o, info) ==
    IF o.makes THEN [info EXCEPT !.entries = Append(@, Widget(o, info))]
    ELSE info

\* the body of the loop over a record's entries in remove_file
DetachCalls(entries) ==
    [k \in 1..(3 * Len(entries)) |->
        LET w == entries[(k + 2) \div 3]
        IN  CASE k % 3 = 1 -> CallWidget("get_parent", w)
              [] k % 3 = 2 -> CallWidget("remove", w)
              [] OTHER -> CallWidget("invalidate_filter", w)]

\* a faulty variant: the record is deleted and its entries are left attached
remove_file_KeepsChildren(m, path) ==
    LET p == IF isinstance_str(path) THEN Path(path) ELSE path
        i == IndexOf(m.app_entries, p)
    IN  IF i # 0 THEN [m EXCEPT !.app_entries = DelItem(@, i)] ELSE m

remove_file(m, path) ==
    LET p == IF isinstance_str(path) THEN Path(path) ELSE path
        i == IndexOf(m.app_entries, p)
    IN  IF i # 0
        THEN [m EXCEPT
                !.trace = @ \o DetachCalls(m.app_entries[i].value.entries),
                !.app_entries = DelItem(@, i)]
        ELSE m

\* a faulty variant: the dependent entries are refreshed before the fields
\* are assigned
load_data_RefreshFirst(m, i, entry, doms) ==
    LET info == LoadedFields(m.app_entries[i].value, entry, doms)
    IN  [m EXCEPT !.app_entries[i].value = info,
                  !.trace = @ \o UpdateCalls(m.app_entries[i].value)]

\* app_info.load_data(entry), for the record at position i
load_data(m, i, entry, doms) ==
    LET info == LoadedFields(m.app_entries[i].value, entry, doms)
    IN  [m EXCEPT !.app_entries[i].value = info,
                  !.trace = @ \o UpdateCalls(info)]

\* a faulty variant: the observers are called from the last registered to the first
RECURSIVE RunCallbacks_Reversed(_, _, _)
RunCallbacks_Reversed(m, i, cbs) ==
    IF cbs = <<>> THEN m
    ELSE LET func == cbs[Len(cbs)]
             info == m.app_entries[i].value
             m1 == [m EXCEPT
                      !.trace = Append(@, CallObserver(func.id, info)),
                      !.app_entries[i].value = Observe(func, info)]
         IN  RunCallbacks_Reversed(m1, i, SubSeq(cbs, 1, Len(cbs) - 1))

\* for func in self._callbacks: func(app_info), for the record at position i
RECURSIVE RunCallbacks(_, _, _)
RunCallbacks(m, i, cbs) ==
    IF cbs = <<>> THEN m
    ELSE LET info == m.app_entries[i].value
             m1 == [m EXCEPT
                      !.trace = Append(@, CallObserver(Head(cbs).id, info)),
                      !.app_entries[i].value = Observe(Head(cbs), info)]
         IN  RunCallbacks(m1, i, Tail(cbs))

\* a faulty variant: only a path that does not exist is skipped
IsTransient_NoSizeCheck(path, st) == isinstance_str(path) /\ ~exists(st)

\* an event path whose file is being deleted or created
IsTransient(path, st) ==
    isinstance_str(path) /\ (~exists(st) \/ size_is_zero(st))

\* a faulty variant: an entry that is not eligible is left alone
load_file_KeepsIneligible(m, cbs, doms, envs, path, st, parsed) ==
    LET p == IF isinstance_str(path) THEN Path(path) ELSE path
    IN  IF IsTransient(path, st)
        THEN m
        ELSE IF ~EndsWith(p.name, DesktopSuffix)
        THEN m
        ELSE IF parsed = ParseError
        THEN remove_file(m, p)
        ELSE IF ~_eligibility_check(parsed.entry, envs)
        THEN m
        ELSE LET new_entry == IndexOf(m.app_entries, p) = 0
                 m1 == IF new_entry
                       THEN [m EXCEPT
                               !.app_entries =
                                   Append(@, [key |-> p,
                                              value |-> ApplicationInfo(m.nextId, p)]),
                               !.nextId = @ + 1]
                       ELSE m
                 i == IndexOf(m1.app_entries, p)
                 m2 == load_data(m1, i, parsed.entry, doms)
             IN  IF new_entry THEN RunCallbacks(m2, i, cbs) ELSE m2

\* a faulty variant: the observers are called on every load, not only when
\* the record is new
load_file_AlwaysNotifies(m, cbs, doms, envs, path, st, parsed) ==
    LET p == IF isinstance_str(path) THEN Path(path) ELSE path
    IN  IF IsTransient(path, st)
        THEN m
        ELSE IF ~EndsWith(p.name, DesktopSuffix)
        THEN m
        ELSE IF parsed = ParseError
        THEN remove_file(m, p)
        ELSE IF ~_eligibility_check(parsed.entry, envs)
        THEN remove_file(m, p)
        ELSE LET new_entry == IndexOf(m.app_entries, p) = 0
                 m1 == IF new_entry
                       THEN [m EXCEPT
                               !.app_entries =
                                   Append(@, [key |-> p,
                                              value |-> ApplicationInfo(m.nextId, p)]),
                               !.nextId = @ + 1]
                       ELSE m
                 i == IndexOf(m1.app_entries, p)
                 m2 == load_data(m1, i, parsed.entry, doms)
             IN  RunCallbacks(m2, i, cbs)

load_file(m, cbs, doms, envs, path, st, parsed) ==
    LET p == IF isinstance_str(path) THEN Path(path) ELSE path
    IN  IF IsTransient(path, st)
        THEN m
        ELSE IF ~EndsWith(p.name, DesktopSuffix)
        THEN m
        ELSE IF parsed = ParseError
        THEN remove_file(m, p)
        ELSE IF ~_eligibility_check(parsed.entry, envs)
        THEN remove_file(m, p)
        ELSE LET new_entry == IndexOf(m.app_entries, p) = 0
                 m1 == IF new_entry
                       THEN [m EXCEPT
                               !.app_entries =
                                   Append(@, [key |-> p,
                                              value |-> ApplicationInfo(m.nextId, p)]),
                               !.nextId = @ + 1]
                       ELSE m
                 i == IndexOf(m1.app_entries, p)
                 m2 == load_data(m1, i, parsed.entry, doms)
             IN  IF new_entry THEN RunCallbacks(m2, i, cbs) ELSE m2

\* load_file(path) when a collaborator raises past the eligibility check,
\* where no exception is caught.  failAt = 0: load_data raises at the lookup
\* of the VM (an error of the registry other than KeyError), before any
\* field is assigned.  failAt = k > 0: the k-th observer raises when it is
\* called with the new record, before it appends anything; the observers
\* after it are not called.
load_file_raising(m, cbs, doms, envs, path, st, parsed, failAt) ==
    LET p == IF isinstance_str(path) THEN Path(path) ELSE path
        new_entry == IndexOf(m.app_entries, p) = 0
        m1 == IF new_entry
              THEN [m EXCEPT
                      !.app_entries =
                          Append(@, [key |-> p,
                                     value |-> ApplicationInfo(m.nextId, p)]),
                      !.nextId = @ + 1]
              ELSE m
        i == IndexOf(m1.app_entries, p)
    IN  IF failAt = 0
        THEN m1
        ELSE LET m2 == load_data(m1, i, parsed.entry, doms)
                 m3 == RunCallbacks(m2, i, SubSeq(cbs, 1, failAt - 1))
             IN  [m3 EXCEPT
                    !.trace = Append(@, CallObserver(cbs[failAt].id,
                                                     m3.app_entries[i].value))]

\* for info in self.app_entries.values(): func(info), from position i on
RECURSIVE Replay(_, _, _)
Replay(m, i, func) ==
    IF i > Len(m.app_entries) THEN m
    ELSE LET info == m.app_entries[i].value
             m1 == [m EXCEPT
                      !.trace = Append(@, CallObserver(func.id, info)),
                      !.app_entries[i].value = Observe(func, info)]
         IN  Replay(m1, i + 1, func)

\* a faulty variant: the observer is registered and hears of no existing record
register_callback_NoReplay(m, cbs, func) ==
    [cbs |-> Append(cbs, func), m |-> m]

\* register_callback(func): the new observer list and the changed fields
register_callback(m, cbs, func) ==
    [cbs |-> Append(cbs, func), m |-> Replay(m, 1, func)]

\* DesktopFileManager.__init__: the scan of desktop_dirs
FileOrder == <<FileA, FileB, FileN>>
\* every directory / file of the scan, in order
RECURSIVE Listing(_, _, _)
Listing(fs0, d, k) ==
    IF d > Len(desktop_dirs) THEN <<>>
    ELSE IF k > Len(FileOrder) THEN Listing(fs0, d + 1, 1)
    ELSE (IF FileOrder[k].dir = desktop_dirs[d] /\ exists(fs0[FileOrder[k]])
          THEN <<FileOrder[k]>> ELSE <<>>) \o Listing(fs0, d, k + 1)

RECURSIVE ScanFiles(_, _, _, _, _)
ScanFiles(m, todo, fs0, doms, envs) ==
    IF todo = <<>> THEN m
    ELSE LET f == Head(todo)
             \* the file exists, so the parser has one outcome
             parsed == CHOOSE x \in DesktopEntry(fs0[f]) : TRUE
         IN  ScanFiles(load_file(m, <<>>, doms, envs, PosixPath(f), fs0[f], parsed),
                       Tail(todo), fs0, doms, envs)

(***************************************************************************)
(* The state machine.                                                      *)
(*   fs                    the files under the watched directories         *)
(*   domains               the names qapp.domains resolves                 *)
(*   current_environments  XDG_CURRENT_DESKTOP, split                      *)
(*   app_entries           the cache                                       *)
(*   _callbacks            the observer list                               *)
(*   queue                 inotify events not yet processed                *)
(*   nextId                identity of the next ApplicationInfo            *)
(*   lastOp                the operation the last step ran, with its input *)
(*                         and the cache as it was before                  *)
(*   trace                 the calls that operation made, in order         *)
(*   call                  input and result of a pure function (SpecElig,  *)
(*                         SpecCmd)                                        *)
(***************************************************************************)
NoCall == [fn |-> "none"]

\* the states file f takes in the model
FileStatesOf(f) ==
    CASE f = FileA -> FileStates
      [] f = FileB -> {Missing, Content(Plain)}
      [] OTHER -> {Content(Plain)}

\* the fields an operation may change, as a record, and back
Manager == [app_entries |-> app_entries, nextId |-> nextId, trace |-> <<>>]
Becomes(m) ==
    /\ m.nextId <= MaxRecords + 1
    /\ app_entries' = m.app_entries
    /\ nextId' = m.nextId
    /\ trace' = m.trace

Init ==
    /\ fs \in [Files -> FileStates]
    /\ \A f \in Files : fs[f] \in FileStatesOf(f)
    /\ domains \in SUBSET VMNames
    /\ current_environments = <<"X-QUBES", "KDE">>
    /\ _callbacks = <<>>
    /\ LET m == ScanFiles([app_entries |-> <<>>, nextId |-> 1, trace |-> <<>>],
                          Listing(fs, 1, 1), fs, domains, current_environments)
       IN  /\ app_entries = m.app_entries
           /\ nextId = m.nextId
           /\ trace = m.trace
    /\ queue = <<>>
    /\ lastOp = [op |-> "__init__"]
    /\ call = NoCall

\* another process changes a file
ChangeFile(f, st) ==
    /\ st # fs[f]
    /\ fs' = [fs EXCEPT ![f] = st]
    /\ lastOp' = [op |-> "fs"]
    /\ trace' = <<>>
    /\ UNCHANGED <<domains, current_environments, app_entries, _callbacks,
                   queue, nextId, call>>

\* a VM is created or removed in the registry
ChangeDomains(n) ==
    /\ domains' = IF n \in domains THEN domains \ {n} ELSE domains \cup {n}
    /\ lastOp' = [op |-> "domains"]
    /\ trace' = <<>>
    /\ UNCHANGED <<fs, current_environments, app_entries, _callbacks, queue,
                   nextId, call>>

\* the step before ran load_file with the same path, on the same file, with
\* the same outcome of the parser
SameLoad(path, parsed) ==
    /\ lastOp.op = "load_file"
    /\ lastOp.path = path
    /\ lastOp.parsed = parsed

\* load_file(path) with the parser's outcome parsed
LoadFile(path, parsed) ==
    /\ Becomes(load_file(Manager, _callbacks, domains, current_environments,
                         path, fs[FileOf(path)], parsed))
    /\ lastOp' = [op |-> "load_file", path |-> path, parsed |-> parsed,
                  before |-> app_entries, observers |-> _callbacks,
                  again |-> SameLoad(path, parsed)]

RemoveFile(path) ==
    /\ Becomes(remove_file(Manager, path))
    /\ lastOp' = [op |-> "remove_file", path |-> path,
                  before |-> app_entries, observers |-> _callbacks]

\* the paths load_file and remove_file are called with
Paths == {StrPath(f) : f \in Files} \cup {PosixPath(f) : f \in Files}

\* load_file(path), called by an event handler (a str), by the scan or by
\* another caller (a Path)
Load(path) ==
    /\ \E parsed \in DesktopEntry(fs[FileOf(path)]) : LoadFile(path, parsed)
    /\ UNCHANGED <<fs, domains, current_environments, _callbacks, queue, call>>

\* remove_file(path), called by an event handler or by another caller
Remove(path) ==
    /\ RemoveFile(path)
    /\ UNCHANGED <<fs, domains, current_environments, _callbacks, queue, call>>

\* the k-th observer to register: every observer creates a widget for the
\* records it is called with and appends it to their entries, but the
\* second, which creates none
Observer(k) == [id |-> k, makes |-> k # 2]

RegisterCallback ==
    /\ Len(_callbacks) < MaxObservers
    /\ LET func == Observer(Len(_callbacks) + 1)
           r == register_callback(Manager, _callbacks, func)
       IN  /\ _callbacks' = r.cbs
           /\ Becomes(r.m)
           /\ lastOp' = [op |-> "register_callback", func |-> func,
                         before |-> app_entries, observers |-> _callbacks]
    /\ UNCHANGED <<fs, domains, current_environments, queue, call>>

Next ==
    \/ \E f \in Files : \E st \in FileStatesOf(f) : ChangeFile(f, st)
    \/ \E n \in VMNames : ChangeDomains(n)
    \/ \E path \in Paths : Load(path)
    \/ \E path \in Paths : Remove(path)
    \/ RegisterCallback

Spec == Init /\ [][Next]_vars

(***************************************************************************)
(* The event router: the watches queue an event for every change of a      *)
(* file, and EventProcessor handles the events in order.                   *)
(***************************************************************************)
Event(kind, f) == [kind |-> kind, pathname |-> StrPath(f)]

Watched(kind, f, st) ==
    /\ Len(queue) < MaxQueue
    /\ fs' = [fs EXCEPT ![f] = st]
    /\ queue' = Append(queue, Event(kind, f))
    /\ lastOp' = [op |-> "fs"]
    /\ trace' = <<>>
    /\ UNCHANGED <<domains, current_environments, app_entries, _callbacks,
                   nextId, call>>

CreateFile(f, st) == fs[f] = Missing /\ st # Missing /\ Watched("IN_CREATE", f, st)
WriteFile(f, st) == fs[f] # Missing /\ st # Missing /\ Watched("IN_MODIFY", f, st)
DeleteFile(f) == fs[f] # Missing /\ Watched("IN_DELETE", f, Missing)

process_IN_CREATE(event) ==
    \E parsed \in DesktopEntry(fs[FileOf(event.pathname)]) :
        LoadFile(event.pathname, parsed)
process_IN_DELETE(event) == RemoveFile(event.pathname)
process_IN_MODIFY(event) ==
    \E parsed \in DesktopEntry(fs[FileOf(event.pathname)]) :
        LoadFile(event.pathname, parsed)

\* the notifier hands the oldest pending event to its handler
ProcessEvent ==
    /\ queue # <<>>
    /\ LET event == Head(queue)
       IN  CASE event.kind = "IN_CREATE" -> process_IN_CREATE(event)
             [] event.kind = "IN_DELETE" -> process_IN_DELETE(event)
             [] OTHER -> process_IN_MODIFY(event)
    /\ queue' = Tail(queue)
    /\ UNCHANGED <<fs, domains, current_environments, _callbacks, call>>

NextRouter ==
    \/ \E f \in Files : \E st \in FileStatesOf(f) : CreateFile(f, st)
    \/ \E f \in Files : \E st \in FileStatesOf(f) : WriteFile(f, st)
    \/ \E f \in Files : DeleteFile(f)
    \/ ProcessEvent

SpecRouter == Init /\ [][NextRouter]_vars

(***************************************************************************)
(* Construction, with directories that cannot be read.  call holds the     *)
(* directories os.listdir can read and what the constructor did: the paths *)
(* it called load_file with, whether it raised, and whether                *)
(* initialize_watchers ran.                                                *)
(***************************************************************************)
\* os.listdir(directory), for a directory that can be read
ListDir(fs0, directory) ==
    SelectSeq(FileOrder, LAMBDA f : f.dir = directory /\ exists(fs0[f]))

\* directory / file for every file of a listing
Joined(files) == [i \in 1..Len(files) |-> PosixPath(files[i])]

\* the loop over self.desktop_dirs from directory d on; os.listdir raises
\* for a directory that cannot be read, and nothing catches it
RECURSIVE ScanDirs(_, _, _, _, _, _)
ScanDirs(r, d, fs0, doms, envs, readable) ==
    IF d > Len(desktop_dirs) THEN r
    ELSE IF desktop_dirs[d] \notin readable
    THEN [r EXCEPT !.raised = TRUE]
    ELSE LET files == ListDir(fs0, desktop_dirs[d])
         IN  ScanDirs([r EXCEPT !.m = ScanFiles(@, files, fs0, doms, envs),
                                !.loads = @ \o Joined(files)],
                      d + 1, fs0, doms, envs, readable)

\* the state before DesktopFileManager(qapp): a directory that cannot be
\* read has no files
InitScan ==
    /\ fs \in [Files -> FileStates]
    /\ fs[FileN] \in {Missing, Content(Plain)}
    /\ domains \in SUBSET VMNames
    /\ current_environments = <<"X-QUBES", "KDE">>
    /\ app_entries = <<>>
    /\ _callbacks = <<>>
    /\ queue = <<>>
    /\ nextId = 1
    /\ lastOp = [op |-> "none"]
    /\ trace = <<>>
    /\ call \in {[fn |-> "__init__", readable |-> R, done |-> FALSE,
                  raised |-> FALSE, loads |-> <<>>, watchers |-> FALSE] :
                    R \in SUBSET Range(desktop_dirs)}
    /\ \A f \in Files : f.dir \notin call.readable => fs[f] = Missing

\* DesktopFileManager.__init__
Construct ==
    /\ call.fn = "__init__" /\ ~call.done
    /\ LET r == ScanDirs([m |-> Manager, loads |-> <<>>, raised |-> FALSE],
                         1, fs, domains, current_environments, call.readable)
       IN  /\ Becomes(r.m)
           /\ call' = [call EXCEPT !.done = TRUE,
                                    !.raised = r.raised,
                                    !.loads = r.loads,
                                    !.watchers = ~r.raised]
    /\ lastOp' = [op |-> "__init__"]
    /\ UNCHANGED <<fs, domains, current_environments, _callbacks, queue>>

SpecScan == InitScan /\ [][Construct]_vars

(***************************************************************************)
(* Iteration over the cache.  get_app_infos is a generator and             *)
(* register_callback a loop over self.app_entries.values(): each step of   *)
(* either asks the dict's value iterator for the next record, and          *)
(* load_file or remove_file may run between two steps (called by the       *)
(* consumer of the generator, or by the observer that is being replayed).  *)
(* call holds the iterator as CPython keeps it: the entry array of the     *)
(* dict (slots: the id of the record in each slot, NoRecord for a deleted  *)
(* slot), the size of the dict when the iterator was made (used), the      *)
(* next slot (pos) and the number of records still expected (len).  A      *)
(* deletion empties a slot and an insertion takes the next slot; the       *)
(* array is not compacted within the number of records of the model.       *)
(***************************************************************************)
\* the mark of a deleted slot (the ids of records start at 1)
NoRecord == 0
\* get_app_infos calls no observer
NoObserver == [id |-> 0, makes |-> FALSE]

Ids(ae) == {ae[i].value.id : i \in 1..Len(ae)}
Slot(ae) == [i \in 1..Len(ae) |-> ae[i].value.id]

\* iter(self.app_entries.values())
ValuesIterator(kind, func, ae) ==
    [fn |-> "iterate", kind |-> kind, func |-> func, slots |-> Slot(ae),
     used |-> Len(ae), pos |-> 1, len |-> Len(ae), yielded |-> <<>>,
     live |-> Ids(ae), status |-> "running"]

\* the entry array after the dict has become ae: deleted records leave an
\* empty slot, new records follow
SlotsAfter(slots, ae) ==
    [i \in 1..Len(slots) |->
        IF slots[i] \in Ids(ae) THEN slots[i] ELSE NoRecord]
    \o SelectSeq(Slot(ae), LAMBDA id : id \notin Range(slots))

\* the first slot from pos on that holds a record, 0 when there is none
NextSlot(it) ==
    IF \E i \in it.pos..Len(it.slots) : it.slots[i] # NoRecord
    THEN CHOOSE i \in it.pos..Len(it.slots) :
            /\ it.slots[i] # NoRecord
            /\ \A j \in it.pos..(i - 1) : it.slots[j] = NoRecord
    ELSE 0

\* next(iterator): RuntimeError when the dict changed size or a record
\* turns up that was not expected, StopIteration at the end of the array
IterStep(it, ae) ==
    IF it.used # Len(ae)
    THEN [it EXCEPT !.status = "RuntimeError"]
    ELSE IF NextSlot(it) = 0
    THEN [it EXCEPT !.status = "done"]
    ELSE IF it.len = 0
    THEN [it EXCEPT !.status = "RuntimeError"]
    ELSE [it EXCEPT !.yielded = Append(@, it.slots[NextSlot(it)]),
                    !.pos = NextSlot(it) + 1,
                    !.len = @ - 1]

Iterating == call.fn = "iterate" /\ call.status = "running"

\* gen = get_app_infos(), up to the creation of the dict iterator
StartIteration ==
    /\ call = NoCall
    /\ call' = ValuesIterator("get_app_infos", NoObserver, app_entries)
    /\ lastOp' = [op |-> "get_app_infos"]
    /\ trace' = <<>>
    /\ UNCHANGED <<fs, domains, current_environments, app_entries, _callbacks,
                   queue, nextId>>

\* register_callback(func), up to the creation of the dict iterator
StartReplay ==
    /\ call = NoCall
    /\ Len(_callbacks) < MaxObservers
    /\ LET func == Observer(Len(_callbacks) + 1)
       IN  /\ _callbacks' = Append(_callbacks, func)
           /\ call' = ValuesIterator("register_callback", func, app_entries)
    /\ lastOp' = [op |-> "register_callback_begins"]
    /\ trace' = <<>>
    /\ UNCHANGED <<fs, domains, current_environments, app_entries, queue,
                   nextId>>

\* one step of the loop: the generator yields the record, register_callback
\* calls func with it
IterNext ==
    /\ Iterating
    /\ call' = IterStep(call, app_entries)
    /\ lastOp' = [op |-> "next"]
    /\ IF call.kind = "register_callback" /\ call'.yielded # call.yielded
       THEN LET i == CHOOSE k \in 1..Len(app_entries) :
                        app_entries[k].value.id = call.slots[NextSlot(call)]
                info == app_entries[i].value
            IN  /\ trace' = <<CallObserver(call.func.id, info)>>
                /\ app_entries' =
                      [app_entries EXCEPT ![i].value = Observe(call.func, info)]
       ELSE trace' = <<>> /\ UNCHANGED app_entries
    /\ UNCHANGED <<fs, domains, current_environments, _callbacks, queue,
                   nextId>>

\* the moments load_file and remove_file may run: any, but within an
\* iteration only after a record has been yielded (the consumer of the
\* generator holds it, or func has been called with it)
MayMutate == Iterating => call.yielded # <<>>

\* the iterator after the cache has changed
Mutated ==
    call' = IF call.fn = "iterate"
            THEN [call EXCEPT !.slots = SlotsAfter(@, app_entries'),
                              !.live = @ \cup Ids(app_entries')]
            ELSE call

IterLoad(path) ==
    /\ MayMutate
    /\ \E parsed \in DesktopEntry(fs[FileOf(path)]) : LoadFile(path, parsed)
    /\ Mutated
    /\ UNCHANGED <<fs, domains, current_environments, _callbacks, queue>>

IterRemove(path) ==
    /\ MayMutate
    /\ RemoveFile(path)
    /\ Mutated
    /\ UNCHANGED <<fs, domains, current_environments, _callbacks, queue>>

NextIter ==
    \/ \E f \in Files : \E st \in FileStatesOf(f) : ChangeFile(f, st)
    \/ StartIteration
    \/ StartReplay
    \/ IterNext
    \/ \E f \in Files : IterLoad(StrPath(f))
    \/ \E f \in Files : IterRemove(StrPath(f))

SpecIter == Init /\ [][NextIter]_vars

(***************************************************************************)
(* The operations of the cache with a record of what has happened since    *)
(* construction.  call holds, for every observer and every record of the   *)
(* cache, how many times the observer has been called with the record      *)
(* (heard), and the records that have been deleted from the cache, with    *)
(* the key and the dependent entries they had (gone).                      *)
(***************************************************************************)
ObserverIds == 1..MaxObservers
RecordIds == 1..MaxRecords

\* the number of calls of observer o with record r in trace tr
RECURSIVE Calls(_, _, _)
Calls(tr, o, r) ==
    IF tr = <<>> THEN 0
    ELSE (IF IsObserverCall(Head(tr), o, r) THEN 1 ELSE 0)
         + Calls(Tail(tr), o, r)

NoHistory ==
    [fn |-> "history", heard |-> [pr \in ObserverIds \X RecordIds |-> 0],
     gone |-> {}]

\* the history after an operation that found the cache as before, left it
\* as after and made the calls tr
Recorded(h, before, after, tr) ==
    [h EXCEPT
        !.heard = [pr \in ObserverIds \X RecordIds |->
                      IF pr[2] \in Ids(after)
                      THEN h.heard[pr] + Calls(tr, pr[1], pr[2])
                      ELSE 0],
        !.gone = @ \cup {[key |-> before[i].key, id |-> before[i].value.id,
                          had |-> Len(before[i].value.entries)] :
                            i \in {k \in 1..Len(before) :
                                      before[k].value.id \notin Ids(after)}}]

Remembered == call' = Recorded(call, app_entries, app_entries', trace')

\* the manager as the constructor leaves it
InitHist ==
    /\ fs \in [Files -> FileStates]
    /\ \A f \in Files : fs[f] \in FileStatesOf(f)
    /\ domains = VMNames
    /\ current_environments = <<"X-QUBES", "KDE">>
    /\ _callbacks = <<>>
    /\ LET m == ScanFiles([app_entries |-> <<>>, nextId |-> 1, trace |-> <<>>],
                          Listing(fs, 1, 1), fs, domains, current_environments)
       IN  /\ app_entries = m.app_entries
           /\ nextId = m.nextId
           /\ trace = m.trace
    /\ queue = <<>>
    /\ lastOp = [op |-> "__init__"]
    /\ call = NoHistory

HistLoad(path) ==
    /\ \E parsed \in DesktopEntry(fs[FileOf(path)]) : LoadFile(path, parsed)
    /\ Remembered
    /\ UNCHANGED <<fs, domains, current_environments, _callbacks, queue>>

HistRemove(path) ==
    /\ RemoveFile(path)
    /\ Remembered
    /\ UNCHANGED <<fs, domains, current_environments, _callbacks, queue>>

HistRegister ==
    /\ Len(_callbacks) < MaxObservers
    /\ LET func == Observer(Len(_callbacks) + 1)
           r == register_callback(Manager, _callbacks, func)
       IN  /\ _callbacks' = r.cbs
           /\ Becomes(r.m)
           /\ lastOp' = [op |-> "register_callback", func |-> func,
                         before |-> app_entries, observers |-> _callbacks]
    /\ Remembered
    /\ UNCHANGED <<fs, domains, current_environments, queue>>

NextHist ==
    \/ \E f \in Files : \E st \in FileStatesOf(f) : ChangeFile(f, st)
    \/ \E f \in Files : HistLoad(StrPath(f))
    \/ \E f \in Files : HistRemove(StrPath(f))
    \/ HistRegister

SpecHist == InitHist /\ [][NextHist]_vars

\* load_file(path) of an eligible entry, in which load_data (failAt = 0) or
\* the failAt-th observer raises; an observer is called only for a new
\* record
LoadFails(path, failAt) ==
    /\ ~IsTransient(path, fs[FileOf(path)])
    /\ EndsWith(path.name, DesktopSuffix)
    /\ fs[FileOf(path)].kind = "entry"
    /\ _eligibility_check(fs[FileOf(path)].entry, current_environments)
    /\ failAt <= Len(_callbacks)
    /\ failAt > 0 => IndexOf(app_entries, Path(path)) = 0
    /\ Becomes(load_file_raising(Manager, _callbacks, domains,
                                 current_environments, path,
                                 fs[FileOf(path)], fs[FileOf(path)], failAt))
    /\ lastOp' = [op |-> "load_file_raised", path |-> path,
                  parsed |-> fs[FileOf(path)], before |-> app_entries,
                  observers |-> _callbacks, failAt |-> failAt]
    /\ Remembered
    /\ UNCHANGED <<fs, domains, current_environments, _callbacks, queue>>

NextFail ==
    \/ NextHist
    \/ \E f \in Files : \E failAt \in 0..MaxObservers :
          LoadFails(StrPath(f), failAt)

SpecFail == InitHist /\ [][NextFail]_vars

(***************************************************************************)
(* The pure functions, applied to inputs drawn from bounded sets.  The     *)
(* cache is idle: only call and, for the eligibility check,                *)
(* current_environments matter.                                            *)
(***************************************************************************)
Idle ==
    /\ fs = [f \in Files |-> Missing]
    /\ domains = {}
    /\ app_entries = <<>>
    /\ _callbacks = <<>>
    /\ queue = <<>>
    /\ nextId = 1
    /\ lastOp = [op |-> "none"]
    /\ trace = <<>>

\* the lists of at most n elements of S
ListsUpTo(S, n) == UNION {[1..k -> S] : k \in 0..n}

\* environment tags
Tags == {"A", "B"}
TagLists == ListsUpTo(Tags, MaxTags)
EligibilityInputs ==
    {[Blank EXCEPT !.Hidden = h, !.OnlyShowIn = o, !.NotShowIn = n] :
        h \in BOOLEAN, o \in TagLists, n \in TagLists}

InitElig ==
    /\ Idle
    \* 'A:B'.split(':') has at least one element
    /\ current_environments \in TagLists \ {<<>>}
    /\ call \in {[fn |-> "_eligibility_check", done |-> FALSE, entry |-> e,
                  result |-> FALSE] : e \in EligibilityInputs}

CheckEligibility ==
    /\ call.fn = "_eligibility_check" /\ ~call.done
    /\ call' = [call EXCEPT
                  !.done = TRUE,
                  !.result = _eligibility_check(call.entry, current_environments)]
    /\ UNCHANGED <<fs, domains, current_environments, app_entries, _callbacks,
                   queue, nextId, lastOp, trace>>

SpecElig == InitElig /\ [][CheckEligibility]_vars

\* exec tokens, and the VMs a command is asked for
Tmpl == <<"tmpl">>
Child == <<"child">>
Tokens == {Tmpl, <<"cmd">>, StrNone}
SpecExample == << <<"run">>, <<"--ctx">>, Tmpl, <<"-e">>, <<"cmd">> >>
ExecLists == (ListsUpTo(Tokens, MaxTokens) \ {<<>>}) \cup {SpecExample}
CommandVMs == {NoVM, VM(Tmpl), VM(Child)}

InitCmd ==
    /\ Idle
    /\ current_environments = <<"X-QUBES", "KDE">>
    /\ call \in {[fn |-> "get_command_for_vm", done |-> FALSE,
                  info |-> [ApplicationInfo(1, PosixPath(FileA)) EXCEPT
                               !.vm = own, !.exec = ex],
                  vm |-> override, result |-> Returns(<<>>, FALSE),
                  info_after |-> <<>>] :
                    own \in {NoVM, VM(Tmpl)}, ex \in ExecLists,
                    override \in CommandVMs}

GetCommand ==
    /\ call.fn = "get_command_for_vm" /\ ~call.done
    /\ call' = [call EXCEPT
                  !.done = TRUE,
                  !.result = get_command_for_vm(call.info, call.vm),
                  !.info_after = call.info]
    /\ UNCHANGED <<fs, domains, current_environments, app_entries, _callbacks,
                   queue, nextId, lastOp, trace>>

SpecCmd == InitCmd /\ [][GetCommand]_vars

\* ApplicationInfo.load_data, applied again and again to one record with no
\* dependent entries: the entries handed to it differ in the keys
\* X-Qubes-NonDispvmExec, X-Qubes-AppName, X-Qubes-VmName and Name, and the
\* record is that of a.desktop or of a file whose name begins with the
\* disposable prefix
FileD == [dir |-> "home", name |-> DISPOSABLE_PREFIX \o <<"x", ".desktop">>]
DataEntries ==
    {[Blank EXCEPT !.NonDispvmExec = d, !.AppName = a, !.VmName = v,
                   !.Name = n] :
        d \in {<<>>, <<"1">>},
        a \in {<<>>, <<"firefox">>, DISPOSABLE_PREFIX \o <<"firefox">>},
        v \in {<<>>, VMWork},
        n \in {<<"Files">>, <<"work", ": ", "Firefox">>}}

InitData ==
    /\ fs = [f \in Files |-> Missing]
    /\ domains \in SUBSET VMNames
    /\ current_environments = <<"X-QUBES", "KDE">>
    /\ app_entries = <<>>
    /\ _callbacks = <<>>
    /\ queue = <<>>
    /\ nextId = 1
    /\ lastOp = [op |-> "none"]
    /\ trace = <<>>
    /\ call \in {[fn |-> "load_data", loads |-> 0, entry |-> Blank,
                  before |-> ApplicationInfo(1, PosixPath(f)),
                  info |-> ApplicationInfo(1, PosixPath(f))] :
                    f \in {FileA, FileD}}

\* info.load_data(entry); loads counts the calls up to two
LoadData(entry) ==
    /\ call.fn = "load_data"
    /\ call' = [call EXCEPT
                  !.loads = IF @ < 2 THEN @ + 1 ELSE @,
                  !.entry = entry,
                  !.before = call.info,
                  !.info = LoadedFields(call.info, entry, domains)]
    /\ UNCHANGED <<fs, domains, current_environments, app_entries, _callbacks,
                   queue, nextId, lastOp, trace>>

SpecData == InitData /\ [][\E entry \in DataEntries : LoadData(entry)]_vars

(***************************************************************************)
(* Properties of the pure functions.                                       *)
(***************************************************************************)
EligDone == call.fn = "_eligibility_check" /\ call.done
Intersects(list, envs) == \E i \in 1..Len(list) : \E j \in 1..Len(envs) : list[i] = envs[j]

\* C8: _eligibility_check decides by the first rule that applies: a hidden
\* entry is not eligible; otherwise an entry with a non-empty only-show-in
\* list is eligible exactly when the list meets the current environments;
\* otherwise one with a non-empty not-show-in list is eligible exactly when
\* the list does not meet them; otherwise the entry is eligible.  So
\* only-show-in wins over not-show-in, and hidden wins over both.
C8_EligibilityRuleOrder ==
    EligDone =>
        LET e == call.entry
            envs == current_environments
        IN  /\ e.Hidden => call.result = FALSE
            /\ (~e.Hidden /\ e.OnlyShowIn # <<>>) =>
                    (call.result <=> Intersects(e.OnlyShowIn, envs))
            /\ (~e.Hidden /\ e.OnlyShowIn = <<>> /\ e.NotShowIn # <<>>) =>
                    (call.result <=> ~Intersects(e.NotShowIn, envs))
            /\ (~e.Hidden /\ e.OnlyShowIn = <<>> /\ e.NotShowIn = <<>>) =>
                    call.result = TRUE
            /\ (~e.Hidden /\ e.OnlyShowIn = <<"A">> /\ e.NotShowIn = <<"A">>
                    /\ envs = <<"A">>) => call.result = TRUE

\* the check has run on only-show-in = not-show-in = current tags = {A}
C8_Witness ==
    /\ EligDone
    /\ ~call.entry.Hidden
    /\ call.entry.OnlyShowIn = <<"A">>
    /\ call.entry.NotShowIn = <<"A">>
    /\ current_environments = <<"A">>
    /\ call.result = TRUE

CmdDone == call.fn = "get_command_for_vm" /\ call.done
\* an override is given and differs from the record's vm
Overrides == call.vm # NoVM /\ call.vm # call.info.vm
\* exec with every token equal to str(self.vm) replaced by str(vm)
Substituted ==
    [i \in 1..Len(call.info.exec) |->
        IF call.info.exec[i] = StrOf(call.info.vm) THEN StrOf(call.vm)
        ELSE call.info.exec[i]]

\* C9: get_command_for_vm returns exec unchanged when there is no override
\* or the override is the record's vm; with a differing override it returns
\* exec with every token equal to str(self.vm) replaced by str(vm), same
\* length and order, and leaves the record's exec as it was.
C9_CommandSubstitution ==
    CmdDone =>
        /\ ~call.result.raised
        /\ call.result.value = IF Overrides THEN Substituted ELSE call.info.exec
        /\ call.info_after.exec = call.info.exec

\* C10: with a differing override the call completes and returns the
\* substituted tokens, whatever the length of exec and whatever the token
\* at the assumed position; for exec = run --ctx tmpl -e cmd of vm tmpl and
\* override child it returns run --ctx child -e cmd.
C10_SubstitutionNeverFails ==
    (CmdDone /\ Overrides) =>
        /\ ~call.result.raised
        /\ (call.info.exec = SpecExample /\ call.info.vm = VM(Tmpl)
                /\ call.vm = VM(Child)) =>
              call.result.value = << <<"run">>, <<"--ctx">>, Child, <<"-e">>, <<"cmd">> >>

DataLoaded == call.fn = "load_data" /\ call.loads > 0

\* C11: after any sequence of load_data on a record, entry_name begins
\* with the disposable prefix exactly when the record's disposable flag is
\* set, also when the X-Qubes-AppName of the entry or the name of the file
\* begins with that prefix.
C11_MarkerIffDisposable ==
    DataLoaded =>
        (StartsWith(call.info.entry_name, DISPOSABLE_PREFIX)
            <=> call.info.disposable)

(***************************************************************************)
(* Properties of the cache.  lastOp names the operation the last step ran, *)
(* lastOp.before is the cache as that operation found it, and trace holds  *)
(* the calls it made.                                                      *)
(***************************************************************************)
HasRecord(ae, path) == \E i \in 1..Len(ae) : ae[i].key = path
RecordAt(ae, path) == ae[CHOOSE i \in 1..Len(ae) : ae[i].key = path].value
\* get_app_infos(): the records an iteration yields
get_app_infos(ae) == [i \in 1..Len(ae) |-> ae[i].value]

IsCallback(c) == c.fn = "callback"
IsRemove(c) == c.fn = "remove"
IsInvalidate(c) == c.fn = "invalidate_filter"
IsGetParent(c) == c.fn = "get_parent"
IsUpdate(c) == c.fn = "update_contents"

\* the last step ran load_file / remove_file / register_callback
Loaded == lastOp.op = "load_file"
Removed == lastOp.op = "remove_file"
Registered == lastOp.op = "register_callback"
\* the key the path of the last load_file or remove_file stands for
OpKey == [kind |-> "Path", dir |-> lastOp.path.dir, name |-> lastOp.path.name]
\* the file that path names, as load_file found it
OpFile == fs[FileOf(lastOp.path)]
\* the file passes the eligibility check
Eligible(st) == st.kind = "entry" /\ _eligibility_check(st.entry, current_environments)
\* the last step ran load_file on a '.desktop' path the parser accepted,
\* with an eligible entry, past the check of an event path
LoadAccepted ==
    /\ Loaded
    /\ isinstance_str(lastOp.path) => (OpFile # Missing /\ OpFile # Empty)
    /\ EndsWith(lastOp.path.name, DesktopSuffix)
    /\ Eligible(lastOp.parsed)
Created == LoadAccepted /\ ~HasRecord(lastOp.before, OpKey)
Updated == LoadAccepted /\ HasRecord(lastOp.before, OpKey)

\* the last step ran load_file again: the step before it ran load_file with
\* the same path on the same file, registry and environments
LoadedAgain == Loaded /\ lastOp.again

\* C12: a load_file that repeats the load_file before it, with no change
\* to the file, the registry or the environments in between, leaves the
\* cache as the first call left it (keys, order, record objects, every
\* field and the entries of every record) and calls no observer.
C12_LoadIdempotent ==
    LoadedAgain =>
        /\ app_entries = lastOp.before
        /\ SelectSeq(trace, IsCallback) = <<>>

\* a record with dependent entries was loaded twice in a row, with every
\* observer registered
C12_Witness ==
    /\ LoadedAgain
    /\ Updated
    /\ Len(_callbacks) = MaxObservers
    /\ Len(RecordAt(app_entries, OpKey).entries) >= 2
    /\ SelectSeq(trace, IsUpdate) # <<>>

\* the last step ran an operation of the cache, which recorded the cache as
\* it found it
Operated == Loaded \/ Removed \/ Registered

\* C13: the cache holds at most one record per path; every key is a Path
\* (never a str) whose name ends with '.desktop', and the file_path of the
\* record stored under it is that key; a record that an operation leaves in
\* the cache keeps its key and its file_path; load_file and remove_file
\* given a str act on the record stored under the Path of the same file.
C13_OneRecordPerPath ==
    /\ \A i, j \in 1..Len(app_entries) :
          app_entries[i].key = app_entries[j].key => i = j
    /\ \A i \in 1..Len(app_entries) :
          /\ app_entries[i].key.kind = "Path"
          /\ app_entries[i].value.file_path = app_entries[i].key
          /\ EndsWith(app_entries[i].key.name, DesktopSuffix)
    /\ Operated =>
          \A i \in 1..Len(lastOp.before) : \A j \in 1..Len(app_entries) :
              lastOp.before[i].value.id = app_entries[j].value.id =>
                  /\ app_entries[j].key = lastOp.before[i].key
                  /\ app_entries[j].value.file_path =
                        lastOp.before[i].value.file_path
    /\ LoadAccepted =>
          /\ HasRecord(app_entries, PosixPath(FileOf(lastOp.path)))
          /\ HasRecord(lastOp.before, PosixPath(FileOf(lastOp.path))) =>
                RecordAt(app_entries, PosixPath(FileOf(lastOp.path))).id =
                    RecordAt(lastOp.before, PosixPath(FileOf(lastOp.path))).id
    /\ Removed => ~HasRecord(app_entries, PosixPath(FileOf(lastOp.path)))

\* a str path was loaded over the record of its file, with two records in
\* the cache
C13_Witness ==
    /\ Updated
    /\ isinstance_str(lastOp.path)
    /\ Len(app_entries) = 2
    /\ RecordAt(app_entries, OpKey).file_path = PosixPath(FileOf(lastOp.path))

\* the dependent entries of the record of the last load_file, as the load
\* found them: none when the load created the record
EntriesBefore ==
    IF HasRecord(lastOp.before, OpKey)
    THEN RecordAt(lastOp.before, OpKey).entries
    ELSE <<>>

\* C14, as claimed: every accepted load_file calls update_contents once on
\* every dependent entry the record has when the load returns, those the
\* observers appended during that load included.
C14_RefreshIncludesNewEntries ==
    LoadAccepted =>
        LET new == RecordAt(app_entries, OpKey)
            updates == SelectSeq(trace, IsUpdate)
        IN  /\ Len(updates) = Len(new.entries)
            /\ \A i \in 1..Len(updates) :
                  /\ updates[i].obs = new.entries[i].obs
                  /\ updates[i].arg = new.entries[i].rec

\* C14, amended: every accepted load_file calls update_contents once, in
\* order, on every dependent entry the record had when the load began
\* (none on the create path: the entries the observers append during that
\* load are not refreshed by it); each of these calls finds every derived
\* field of the record already assigned from the parsed entry, and all of
\* them precede the observer calls.
C14_RefreshAfterFields ==
    LoadAccepted =>
        LET new == RecordAt(app_entries, OpKey)
            e == lastOp.parsed.entry
            updates == SelectSeq(trace, IsUpdate)
        IN  /\ updates =
                  [i \in 1..Len(EntriesBefore) |->
                      [fn |-> "update_contents", obs |-> EntriesBefore[i].obs,
                       arg |-> EntriesBefore[i].rec,
                       sees |-> [new EXCEPT !.entries = EntriesBefore]]]
            /\ \A i \in 1..Len(updates) :
                  /\ updates[i].sees.exec = Split(e.Exec)
                  /\ updates[i].sees.app_icon = e.Icon
                  /\ updates[i].sees.categories = e.Categories
                  /\ updates[i].sees.disposable = (e.NonDispvmExec # <<>>)
                  /\ updates[i].sees.vm =
                        IF e.VmName \in domains THEN VM(e.VmName) ELSE NoVM
            /\ \A i, j \in 1..Len(trace) :
                  (IsUpdate(trace[i]) /\ IsCallback(trace[j])) => i < j

\* a record with two dependent entries was reloaded from changed content
C14_Witness ==
    /\ Updated
    /\ Len(EntriesBefore) = 2
    /\ Len(SelectSeq(trace, IsUpdate)) = 2
    /\ RecordAt(lastOp.before, OpKey).exec # RecordAt(app_entries, OpKey).exec

\* the X-Qubes-VmName of entry e names a VM of the registry as it is now
Resolves(e) == e.VmName # <<>> /\ e.VmName \in domains

\* C15: after every accepted load_file the record is in the cache and its
\* vm is what the registry, as it is at that load, gives for the entry's
\* X-Qubes-VmName.  When the name is absent or does not resolve, vm and
\* vm_icon are None and app_name is the entry's Name as it is; when it
\* resolves, vm_icon is the VM's icon and app_name is the Name without a
\* leading '<vm name>: ', or the Name as it is when it has no such prefix.
C15_ContextReresolved ==
    LoadAccepted =>
        LET new == RecordAt(app_entries, OpKey)
            e == lastOp.parsed.entry
            prefix == e.VmName \o <<": ">>
        IN  /\ HasRecord(app_entries, OpKey)
            /\ Resolves(e) =>
                  /\ new.vm = VM(e.VmName)
                  /\ new.vm_icon = VM(e.VmName).icon
                  /\ StartsWith(e.Name, prefix) =>
                        /\ prefix \o new.app_name = e.Name
                        /\ Len(new.app_name) = Len(e.Name) - Len(prefix)
                  /\ ~StartsWith(e.Name, prefix) => new.app_name = e.Name
            /\ ~Resolves(e) =>
                  /\ new.vm = NoVM
                  /\ new.vm_icon = None
                  /\ new.app_name = e.Name

\* a record whose VM had resolved was reloaded after the VM left the
\* registry
C15_Witness ==
    /\ Updated
    /\ RecordAt(lastOp.before, OpKey).vm = VM(VMWork)
    /\ lastOp.parsed.entry.VmName = VMWork
    /\ ~Resolves(lastOp.parsed.entry)
    /\ RecordAt(app_entries, OpKey).vm = NoVM

IterationRan == call.fn = "iterate"

\* C16: an iteration over the cache (a get_app_infos generator, or the
\* replay of register_callback) between whose steps load_file or
\* remove_file add or delete records raises no error, and every record it
\* yields was in the cache at some moment of the iteration.
C16_IterationSafe ==
    IterationRan =>
        /\ call.status # "RuntimeError"
        /\ \A i \in 1..Len(call.yielded) : call.yielded[i] \in call.live

Constructed == call.fn = "__init__" /\ call.done

\* the files of the directories that can be read, in the order of
\* desktop_dirs
RECURSIVE Children(_)
Children(d) ==
    IF d > Len(desktop_dirs) THEN <<>>
    ELSE (IF desktop_dirs[d] \in call.readable
          THEN Joined(ListDir(fs, desktop_dirs[d])) ELSE <<>>)
         \o Children(d + 1)

\* C17: construction calls load_file once for every file of every
\* configured directory, in directory order and with no event handled
\* before, after which the cache holds exactly the files that are not
\* empty, are named *.desktop, parse and are eligible; a directory that
\* cannot be read is passed over, and construction completes and sets up
\* the watchers.
C17_StartupScan ==
    Constructed =>
        /\ ~call.raised
        /\ call.watchers
        /\ queue = <<>>
        /\ call.loads = Children(1)
        /\ \A f \in Files :
              HasRecord(app_entries, PosixPath(f)) <=>
                  /\ fs[f] # Missing
                  /\ fs[f] # Empty
                  /\ EndsWith(f.name, DesktopSuffix)
                  /\ Eligible(fs[f])

\* the items of cache ae stored under another key than that of the last
\* load_file or remove_file
Others(ae) == SelectSeq(ae, LAMBDA item : item.key # OpKey)

\* C19: load_file(p) and remove_file(p) leave the items of every other
\* path as they were (presence, order, record object, every field and the
\* dependent entries), make no call to an observer with, or to a dependent
\* entry of, the record of another path, and leave the observer list as it
\* was.
C19_Frame ==
    (Loaded \/ Removed) =>
        /\ Others(app_entries) = Others(lastOp.before)
        /\ \A k \in 1..Len(trace) : \A i \in 1..Len(Others(lastOp.before)) :
              trace[k].arg # Others(lastOp.before)[i].value.id
        /\ _callbacks = lastOp.observers

\* the first of two records, both with dependent entries, was removed
C19_Witness ==
    /\ Removed
    /\ Len(lastOp.before) = 2
    /\ lastOp.before[1].key = OpKey
    /\ lastOp.before[1].value.entries # <<>>
    /\ lastOp.before[2].value.entries # <<>>
    /\ trace # <<>>

HasHistory == call.fn = "history"

\* C18: after any sequence of operations, every registered observer has
\* been called exactly once with every record that is in the cache.
C18_ObserverCoverage ==
    HasHistory =>
        \A i \in 1..Len(app_entries) : \A k \in 1..Len(_callbacks) :
            call.heard[<<_callbacks[k].id, app_entries[i].value.id>>] = 1

\* the records deleted from the cache before the last operation began
GoneBefore == {g \in call.gone : g.id \notin Ids(lastOp.before)}
\* the last step ran a load_file that created a record for a path whose
\* earlier record had been deleted
Recreated == Created /\ \E g \in GoneBefore : g.key = OpKey

\* C20: a load_file that succeeds for a path whose record was deleted
\* creates a record that is none of the deleted ones, whose entries hold
\* nothing but what the observers append for it during that load, and
\* calls every registered observer once with it; and no operation ever
\* calls an observer with a deleted record or refreshes or detaches a
\* dependent entry of one.
C20_RecreatedAfresh ==
    HasHistory =>
        /\ Recreated =>
              LET new == RecordAt(app_entries, OpKey)
              IN  /\ \A g \in call.gone : g.id # new.id
                  /\ new.id \notin Ids(lastOp.before)
                  /\ SelectSeq(trace, IsUpdate) = <<>>
                  /\ Len(new.entries) <= Len(_callbacks)
                  /\ \A i \in 1..Len(new.entries) :
                        new.entries[i].rec = new.id
                  /\ \A k \in 1..Len(_callbacks) :
                        /\ Calls(trace, _callbacks[k].id, new.id) = 1
                        /\ call.heard[<<_callbacks[k].id, new.id>>] = 1
        /\ Operated =>
              \A g \in GoneBefore : \A k \in 1..Len(trace) :
                  trace[k].arg # g.id

\* a path whose record had dependent entries and was deleted has been
\* loaded again, with observers registered
C20_Witness ==
    /\ HasHistory
    /\ Recreated
    /\ \E g \in GoneBefore : g.key = OpKey /\ g.had >= 2
    /\ Len(_callbacks) = MaxObservers
    /\ Len(RecordAt(app_entries, OpKey).entries) >= 2

\* C1: once every queued event is handled, a path has a record exactly
\* when its file exists, is not empty, is named *.desktop, parses and is
\* eligible.
C1_CacheMatchesFiles ==
    queue = <<>> =>
        \A f \in Files :
            HasRecord(app_entries, PosixPath(f)) <=>
                /\ fs[f] # Missing
                /\ fs[f] # Empty
                /\ EndsWith(f.name, DesktopSuffix)
                /\ Eligible(fs[f])

\* C2: a load_file that creates a record calls every registered observer
\* once with that record, in registration order; a load_file of a path
\* whose record is in the cache calls no observer.
C2_CallbackOnce ==
    LoadAccepted =>
        /\ HasRecord(app_entries, OpKey)
        /\ SelectSeq(trace, IsCallback) =
              IF HasRecord(lastOp.before, OpKey) THEN <<>>
              ELSE [i \in 1..Len(_callbacks) |->
                      [fn |-> "callback", obs |-> _callbacks[i].id,
                       arg |-> RecordAt(app_entries, OpKey).id]]

\* a record was created with every observer registered
C2_Witness ==
    /\ Created
    /\ Len(_callbacks) = MaxObservers
    /\ Len(SelectSeq(trace, IsCallback)) = MaxObservers

\* C3: a load_file of a path that has a record keeps the record object and
\* its place in the cache, keeps its entries as they were, and leaves its
\* fields as derived from the entry just parsed.
C3_IdentityPreserved ==
    Updated =>
        LET old == RecordAt(lastOp.before, OpKey)
            new == RecordAt(app_entries, OpKey)
            e == lastOp.parsed.entry
        IN  /\ Len(app_entries) = Len(lastOp.before)
            /\ \A i \in 1..Len(app_entries) :
                  /\ app_entries[i].key = lastOp.before[i].key
                  /\ app_entries[i].value.id = lastOp.before[i].value.id
            /\ new.file_path = old.file_path
            /\ new.entries = old.entries
            /\ new.exec = Split(e.Exec)
            /\ new.app_icon = e.Icon
            /\ new.categories = e.Categories
            /\ new.disposable = (e.NonDispvmExec # <<>>)
            /\ new.vm = IF e.VmName \in domains THEN VM(e.VmName) ELSE NoVM
            /\ new.vm_icon = IF e.VmName \in domains THEN VM(e.VmName).icon ELSE None

\* a record with a dependent entry was reloaded from changed content
C3_Witness ==
    /\ Updated
    /\ RecordAt(lastOp.before, OpKey).entries # <<>>
    /\ RecordAt(lastOp.before, OpKey).exec # RecordAt(app_entries, OpKey).exec

\* what removing the record of key p from cache before leaves: every
\* dependent entry has been asked for its parent, removed from it, and the
\* parent's filter invalidated, once each and in order; the record is gone;
\* no observer was called.  With no record, nothing happened.
ActedAsRemoval(before, p) ==
    IF HasRecord(before, p)
    THEN LET old == RecordAt(before, p)
             n == Len(old.entries)
         IN  /\ Len(trace) = 3 * n
             /\ SelectSeq(trace, IsGetParent) =
                   [i \in 1..n |-> CallWidget("get_parent", old.entries[i])]
             /\ SelectSeq(trace, IsRemove) =
                   [i \in 1..n |-> CallWidget("remove", old.entries[i])]
             /\ SelectSeq(trace, IsInvalidate) =
                   [i \in 1..n |-> CallWidget("invalidate_filter", old.entries[i])]
             /\ \A i \in 1..n : trace[3 * i - 1].fn = "remove"
                                /\ trace[3 * i].fn = "invalidate_filter"
             /\ ~HasRecord(app_entries, p)
             /\ \A i \in 1..Len(app_entries) : app_entries[i].value.id # old.id
             /\ get_app_infos(app_entries) =
                   SelectSeq(get_app_infos(before), LAMBDA r : r.id # old.id)
    ELSE app_entries = before /\ trace = <<>>

\* C4: remove_file detaches every dependent entry of the record, deletes
\* the record and calls no observer; without a record it does nothing.
C4_RemovalCascade == Removed => ActedAsRemoval(lastOp.before, OpKey)

\* a record with two dependent entries was removed
C4_Witness ==
    /\ Removed
    /\ HasRecord(lastOp.before, OpKey)
    /\ Len(RecordAt(lastOp.before, OpKey).entries) = 2
    /\ Len(SelectSeq(trace, IsRemove)) = 2

\* the last step ran load_file on a path that does not exist or is empty
Transient == Loaded /\ OpFile \in {Missing, Empty}
SilentNoOp == app_entries = lastOp.before /\ trace = <<>>

\* C5, as claimed: load_file on a path that does not exist or is empty
\* changes nothing and calls nothing, whether the path is a str or a Path.
C5_TransientToleranceAnyPath == Transient => SilentNoOp

\* C5, amended: load_file on a str path that does not exist or is empty
\* changes nothing and calls nothing.
C5_TransientTolerance ==
    (Transient /\ isinstance_str(lastOp.path)) => SilentNoOp

\* load_file ran on a str path whose file is gone and whose record has a
\* dependent entry
C5_Witness ==
    /\ Transient
    /\ isinstance_str(lastOp.path)
    /\ OpFile = Missing
    /\ HasRecord(lastOp.before, OpKey)
    /\ RecordAt(lastOp.before, OpKey).entries # <<>>

\* the last step ran load_file on an existing, non-empty '.desktop' file
\* that does not parse or is not eligible
Rejected ==
    /\ Loaded
    /\ OpFile # Missing /\ OpFile # Empty
    /\ EndsWith(lastOp.path.name, DesktopSuffix)
    /\ ~Eligible(lastOp.parsed)

\* C6: load_file on an existing, non-empty '.desktop' file that fails to
\* parse or is not eligible leaves the cache and the dependent entries as
\* remove_file of that path does.
C6_FailureActsAsRemoval == Rejected => ActedAsRemoval(lastOp.before, OpKey)

\* a hidden entry was loaded over a record with a dependent entry
C6_Witness ==
    /\ Rejected
    /\ lastOp.parsed # ParseError
    /\ HasRecord(lastOp.before, OpKey)
    /\ RecordAt(lastOp.before, OpKey).entries # <<>>

\* C7: register_callback appends the observer, calls it once with every
\* record of the cache, in cache order, calls no other observer and leaves
\* the keys and records of the cache in place (the observer may append its
\* widget to a record's entries); a record created later is handed to the
\* observers in registration order.
C7_RegisterReplays ==
    /\ Registered =>
          /\ _callbacks = Append(lastOp.observers, lastOp.func)
          /\ trace = [i \in 1..Len(lastOp.before) |->
                        [fn |-> "callback", obs |-> lastOp.func.id,
                         arg |-> lastOp.before[i].value.id]]
          /\ Len(app_entries) = Len(lastOp.before)
          /\ \A i \in 1..Len(app_entries) :
                /\ app_entries[i].key = lastOp.before[i].key
                /\ [app_entries[i].value EXCEPT !.entries = <<>>] =
                      [lastOp.before[i].value EXCEPT !.entries = <<>>]
                /\ app_entries[i].value.entries \in
                      {lastOp.before[i].value.entries,
                       Append(lastOp.before[i].value.entries,
                              [obs |-> lastOp.func.id,
                               rec |-> lastOp.before[i].value.id])}
    /\ Created =>
          \A i, j \in 1..Len(trace) :
              (IsCallback(trace[i]) /\ IsCallback(trace[j]) /\ i < j) =>
                  trace[i].obs < trace[j].obs

\* an observer registered after another, with two records in the cache
C7_Witness ==
    /\ Registered
    /\ Len(lastOp.before) = 2
    /\ lastOp.observers # <<>>
    /\ Len(trace) = 2

====
